---------------------------- MODULE Spec2Model ----------------------------
(***************************************************************************)
(* Model of the tezos-delegation service: the Store (DelegationRepository  *)
(* over the delegations table), the Upstream Client                        *)
(* (PollerService.fetchDelegationBatch) and the Sync Engine                *)
(* (PollerService.syncAndPoll / syncDelegationsBatch).                     *)
(*                                                                         *)
(* Time is counted in whole seconds.                                       *)
(***************************************************************************)
EXTENDS Integers, Sequences, FiniteSets, TLC

(***************************************************************************)
(* Bounds of the model.                                                    *)
(***************************************************************************)
MaxTzktID == 2
MaxBatch == 2
MaxFeed == 3
MaxPageSize == 2
IntBits == 16
DurationBits == 9

(***************************************************************************)
(* Data model: model.Delegation and the rows of table delegations.         *)
(***************************************************************************)
TzktIDs == 1..MaxTzktID

\* A timestamp is written as the year followed by one digit that orders the
\* instants within the year; EXTRACT(YEAR FROM timestamp) is YearOf.
Timestamps == {20211, 20221}
Levels == {1}
Amounts == {100}
Delegators == {"tz1"}

YearOf(ts) == ts \div 10

Delegation ==
    [TzktID: TzktIDs, Timestamp: Timestamps, Amount: Amounts,
     Delegator: Delegators, Level: Levels]

\* A nil *model.Delegation in the slice handed to InsertDelegations.
NilDelegation ==
    [TzktID |-> 0, Timestamp |-> 0, Amount |-> 0, Delegator |-> "nil", Level |-> 0]

IsNil(d) == d.Delegator = "nil"

SeqsUpTo(S, n) == UNION {[1..k -> S] : k \in 0..n}

Batches == SeqsUpTo(Delegation \cup {NilDelegation}, MaxBatch)

Max(S) == CHOOSE x \in S : \A y \in S : y <= x
Min(S) == CHOOSE x \in S : \A y \in S : x <= y

(***************************************************************************)
(* State.                                                                  *)
(***************************************************************************)
VARIABLES
    rows,        \* table delegations: the set of stored records, without the surrogate id
    firstStored, \* history: for each TzktID ever committed, the record of its first commit
    last,        \* history: the last Store call and what it returned
    feed,        \* upstream: how many records the feed holds (FeedRecord(1..feed))
    pageSize,    \* the page size (const pageSize), scaled down with the feed
    cancelled,   \* ctx.Done() is closed
    tick,        \* ticker.C holds a tick
    pc,          \* where the background goroutine stands
    phase,       \* "historical_sync" or "polling"
    wg,          \* the WaitGroup counter
    fetch,       \* locals of the running fetchDelegationBatch call
    fetchRet,    \* what the last fetchDelegationBatch call returned
    syncRet,     \* what the last syncDelegationsBatch call returned
    hist         \* history of the run up to the first catch-up: nonEmpty, the cycles
                 \* with a non-empty batch; disturbed, a cycle failed or the feed
                 \* grew; caughtUpAt, nonEmpty when a cycle first reported caught-up
                 \* (-1 before), and feedAt, the size of the feed then
VARIABLE
    main         \* func main from poller.Start on: pc, where it stands; waiter, where
                 \* the goroutine that calls poller.Wait() stands; waited, the seconds
                 \* spent in the select on done and time.After
VARIABLE
    query        \* the running or last DelegationService.GetDelegations call: its
                 \* arguments, its locals, the repository's answer and what it returned
VARIABLE
    txn          \* the transaction of a running InsertDelegations call: its batch, how
                 \* many records it has executed, and the rows it has written and not
                 \* yet committed

storeVars == <<rows, firstStored, last>>
envVars == <<feed, pageSize, cancelled, tick>>
engineVars == <<pc, phase, wg, syncRet, hist>>
fetchVars == <<fetch, fetchRet>>
vars == <<rows, firstStored, last, feed, pageSize, cancelled, tick, pc, phase, wg,
          fetch, fetchRet, syncRet, hist, main, query, txn>>

(***************************************************************************)
(* Store: DelegationRepository.                                            *)
(***************************************************************************)

\* One stmt.Exec of
\*   INSERT INTO delegations (...) VALUES (...) ON CONFLICT (tzkt_id) DO NOTHING
\* inside the transaction tx = [rows, skipped, err].
InsertRowOverwrite(tx, d) ==
    [tx EXCEPT !.rows = {r \in tx.rows : r.TzktID # d.TzktID} \cup {d}]

InsertRowNoConflictClause(tx, d) ==
    IF \E r \in tx.rows : r.TzktID = d.TzktID
    THEN [tx EXCEPT !.err = "DatabaseError"]
    ELSE [tx EXCEPT !.rows = tx.rows \cup {d}]

InsertRow(tx, d) ==
    IF \E r \in tx.rows : r.TzktID = d.TzktID
    THEN [tx EXCEPT !.skipped = tx.skipped + 1]
    ELSE [tx EXCEPT !.rows = tx.rows \cup {d}]

\* Where a database fault strikes during one InsertDelegations call.
NoFault == [at |-> "none", idx |-> 0]
Faults(delegations) ==
    {NoFault}
    \cup {[at |-> a, idx |-> 0] : a \in {"begin", "prepare", "commit"}}
    \cup {[at |-> "exec", idx |-> i] : i \in 1..Len(delegations)}

\* The loop over the batch, from index i on.
RECURSIVE ExecFromSkipsNil(_, _, _, _)
ExecFromSkipsNil(tx, delegations, i, fault) ==
    IF i > Len(delegations) THEN tx
    ELSE IF IsNil(delegations[i]) THEN ExecFromSkipsNil(tx, delegations, i + 1, fault)
    ELSE IF fault.at = "exec" /\ fault.idx = i THEN [tx EXCEPT !.err = "DatabaseError"]
    ELSE LET next == InsertRow(tx, delegations[i])
         IN  IF next.err # "nil" THEN next
             ELSE ExecFromSkipsNil(next, delegations, i + 1, fault)

RECURSIVE ExecFrom(_, _, _, _)
ExecFrom(tx, delegations, i, fault) ==
    IF i > Len(delegations) THEN tx
    ELSE IF IsNil(delegations[i]) THEN [tx EXCEPT !.err = "ValidationError"]
    ELSE IF fault.at = "exec" /\ fault.idx = i THEN [tx EXCEPT !.err = "DatabaseError"]
    ELSE LET next == InsertRow(tx, delegations[i])
         IN  IF next.err # "nil" THEN next
             ELSE ExecFrom(next, delegations, i + 1, fault)

\* InsertDelegations on table content rs: [rows, skipped, err], the content
\* afterwards, the number of records skipped by ON CONFLICT and the error
\* returned.  The deferred rollback restores the content on every error.
InsertDelegationsNoRollback(rs, delegations, fault) ==
    LET begin == [rows |-> rs, skipped |-> 0, err |-> "nil"]
        failed(e) == [rows |-> rs, skipped |-> 0, err |-> e]
    IN  IF Len(delegations) = 0 THEN begin
        ELSE IF fault.at \in {"begin", "prepare"} THEN failed("DatabaseError")
        ELSE LET tx == ExecFrom(begin, delegations, 1, fault)
             IN  IF tx.err # "nil" THEN tx
                 ELSE IF fault.at = "commit" THEN [tx EXCEPT !.err = "DatabaseError"]
                 ELSE tx

InsertDelegations(rs, delegations, fault) ==
    LET begin == [rows |-> rs, skipped |-> 0, err |-> "nil"]
        rollback(e) == [rows |-> rs, skipped |-> 0, err |-> e]
    IN  IF Len(delegations) = 0 THEN begin
        ELSE IF fault.at \in {"begin", "prepare"} THEN rollback("DatabaseError")
        ELSE LET tx == ExecFrom(begin, delegations, 1, fault)
             IN  IF tx.err # "nil" THEN rollback(tx.err)
                 ELSE IF fault.at = "commit" THEN rollback("DatabaseError")
                 ELSE tx

\* SELECT COALESCE(MAX(tzkt_id), 0) FROM delegations
GetLatestTzktIDMin(rs) ==
    IF rs = {} THEN 0 ELSE Min({r.TzktID : r \in rs})

GetLatestTzktID(rs) ==
    IF rs = {} THEN 0 ELSE Max({r.TzktID : r \in rs})

\* ORDER BY timestamp DESC, level DESC: a precedes b, or they tie.
OrderedBeforeAscending(a, b) ==
    \/ a.Timestamp < b.Timestamp
    \/ a.Timestamp = b.Timestamp /\ a.Level <= b.Level

OrderedBefore(a, b) ==
    \/ a.Timestamp > b.Timestamp
    \/ a.Timestamp = b.Timestamp /\ a.Level >= b.Level

\* Every order in which the database may return the rows of S for that ORDER
\* BY clause: rows that tie on (timestamp, level) come in any order.
RECURSIVE ResultOrders(_)
ResultOrders(S) ==
    IF S = {} THEN {<<>>}
    ELSE UNION {{<<r>> \o s : s \in ResultOrders(S \ {r})} :
                   r \in {x \in S : \A y \in S : OrderedBefore(x, y)}}

\* LIMIT limit OFFSET offset of an ordered result.
Page(s, limit, offset) ==
    SubSeq(s, offset + 1, IF offset + limit < Len(s) THEN offset + limit ELSE Len(s))

\* The year argument of ListDelegations when the *int is nil.
NoYear == 0
MinYear == 2018

\* ListDelegations: the set of results [recs, err] the call may return on
\* table content rs.
ListDelegations(rs, limit, offset, year) ==
    IF limit <= 0 \/ offset < 0 \/ (year # NoYear /\ year < MinYear)
    THEN {[recs |-> <<>>, err |-> "ValidationError"]}
    ELSE LET matching == IF year = NoYear THEN rs
                         ELSE {r \in rs : YearOf(r.Timestamp) = year}
         IN  {IF Len(Page(s, limit, offset)) = 0
              THEN [recs |-> <<>>, err |-> "ErrNoDelegations"]
              ELSE [recs |-> Page(s, limit, offset), err |-> "nil"] :
                 s \in ResultOrders(matching)}

(***************************************************************************)
(* InsertDelegations statement by statement: Begin, Prepare, one Exec per  *)
(* record, Commit, and the deferred Rollback.  What the transaction has    *)
(* written is in pending until the commit; rows is what other sessions of  *)
(* the database read.                                                      *)
(***************************************************************************)
NoTxn == [state |-> "none", batch |-> <<>>, done |-> 0, before |-> {}, pending |-> {}]

InitTxn == txn = NoTxn

\* stmt.Exec of the statement prepared on the transaction (tx.Prepare):
\* [rows, pending] afterwards.  ON CONFLICT sees the committed rows and the
\* transaction's own.
StmtExecAutocommit(committed, pending, d) ==
    [rows |-> InsertRow([rows |-> committed \cup pending, skipped |-> 0, err |-> "nil"], d).rows,
     pending |-> pending]

StmtExec(committed, pending, d) ==
    [rows |-> committed,
     pending |-> InsertRow([rows |-> committed \cup pending, skipped |-> 0, err |-> "nil"],
                           d).rows \ committed]

\* r.db.Begin() and tx.Prepare for a batch that is not empty.
TxBegin(delegations) ==
    /\ txn.state = "none"
    /\ Len(delegations) > 0
    /\ txn' = [state |-> "open", batch |-> delegations, done |-> 0, before |-> rows,
               pending |-> {}]
    /\ UNCHANGED rows

\* tx.Rollback() in the deferred function.
TxRollback ==
    /\ txn' = NoTxn
    /\ UNCHANGED rows

\* The next round of the loop over the batch; fails: stmt.Exec returns an
\* error.
TxExec(fails) ==
    /\ txn.state = "open"
    /\ txn.done < Len(txn.batch)
    /\ LET d == txn.batch[txn.done + 1]
           w == StmtExec(rows, txn.pending, d)
       IN  IF IsNil(d) \/ fails
           THEN TxRollback
           ELSE /\ rows' = w.rows
                /\ txn' = [txn EXCEPT !.done = @ + 1, !.pending = w.pending]

\* tx.Commit(); fails: it returns an error and the transaction is gone.
TxCommit(fails) ==
    /\ txn.state = "open"
    /\ txn.done = Len(txn.batch)
    /\ IF fails
       THEN TxRollback
       ELSE /\ rows' = rows \cup txn.pending
            /\ txn' = NoTxn

(***************************************************************************)
(* Calls of the Store, with the history they leave.                        *)
(***************************************************************************)
\* The first record of the batch for each TzktID that was never committed.
FirstOccurrences(delegations, known) ==
    {delegations[i] : i \in {k \in 1..Len(delegations) :
        /\ \A f \in known : f.TzktID # delegations[k].TzktID
        /\ \A j \in 1..(k - 1) : delegations[j].TzktID # delegations[k].TzktID}}

CallInsertDelegations(delegations, fault) ==
    LET r == InsertDelegations(rows, delegations, fault)
    IN  /\ rows' = r.rows
        /\ firstStored' = IF r.err = "nil"
                          THEN firstStored \cup FirstOccurrences(delegations, firstStored)
                          ELSE firstStored
        /\ last' = [op |-> "InsertDelegations", err |-> r.err, n |-> Len(delegations),
                    skipped |-> r.skipped, ret |-> 0,
                    differs |-> \E i \in 1..Len(delegations) : \E q \in rows :
                                   /\ q.TzktID = delegations[i].TzktID
                                   /\ q # delegations[i]]

CallGetLatestTzktID(fails) ==
    /\ last' = [op |-> "GetLatestTzktID", err |-> IF fails THEN "DatabaseError" ELSE "nil",
                n |-> 0, skipped |-> 0, differs |-> FALSE,
                ret |-> IF fails THEN 0 ELSE GetLatestTzktID(rows)]
    /\ UNCHANGED <<rows, firstStored>>

(***************************************************************************)
(* Upstream feed (the Tzkt API), as the poller's request describes it:     *)
(* GET <base>?limit=<pageSize>&id.gt=<lastID>.                             *)
(***************************************************************************)

\* The i-th delegation operation of the feed; ids ascend with i and are not
\* consecutive.
FeedID(i) == 10 * i

FeedRecord(i) ==
    [TzktID |-> FeedID(i),
     Timestamp |-> IF i % 2 = 1 THEN 20211 ELSE 20221,
     Amount |-> 100, Delegator |-> "tz1", Level |-> 1]

\* The body of a 200 response: the records with id > lastID, ascending by id,
\* at most limit of them, of a feed that holds n records.
UpstreamPage(n, lastID, limit) ==
    LET beyond == {i \in 1..n : FeedID(i) > lastID}
        m == IF Cardinality(beyond) < limit THEN Cardinality(beyond) ELSE limit
    IN  [k \in 1..m |-> FeedRecord(Min(beyond) + k - 1)]

\* A Retry-After header value: missing, not parsable, an integer of seconds,
\* or an HTTP-date (v: the date in seconds after the start of the fetch call).
NoHeader == [kind |-> "missing", v |-> 0]
Seconds(v) == [kind |-> "seconds", v |-> v]
HttpDate(v) == [kind |-> "date", v |-> v]

\* An upstream response; status 0 stands for a transport-level failure
\* (client.Do returns an error).
Response(status, retryAfter, body) ==
    [status |-> status, retryAfter |-> retryAfter, body |-> body]

(***************************************************************************)
(* Upstream Client: PollerService.fetchDelegationBatch.                    *)
(***************************************************************************)
maxRetries == 5
initialBackoff == 1
maxTotalWait == 120
httpTimeout == 30

\* time.Duration is a signed integer of fixed width (int64 nanoseconds);
\* here it counts seconds in DurationBits bits.
MaxDuration == 2 ^ (DurationBits - 1) - 1
MinDuration == -(2 ^ (DurationBits - 1))

\* time.Duration(secs) * time.Second: the product wraps around.
WrapDuration(secs) == ((secs - MinDuration) % (2 ^ DurationBits)) + MinDuration

\* time.Until(t): Time.Sub saturates at the largest and the smallest Duration.
SaturateDuration(x) ==
    IF x > MaxDuration THEN MaxDuration
    ELSE IF x < MinDuration THEN MinDuration
    ELSE x

\* parseRetryAfter at instant now (seconds after the start of the fetch
\* call): the duration d, or err.
parseRetryAfter(header, now) ==
    IF header.kind = "missing" THEN [d |-> 0, err |-> TRUE]
    ELSE IF header.kind = "seconds" THEN [d |-> WrapDuration(header.v), err |-> FALSE]
    ELSE IF header.kind = "date"
    THEN [d |-> SaturateDuration(header.v - now), err |-> FALSE]
    ELSE [d |-> 0, err |-> TRUE]

\* resp.StatusCode >= 500 && resp.StatusCode < 600
IsClientOrServerError(status) == status >= 400 /\ status < 600

IsServerError(status) == status >= 500 /\ status < 600

\* backoff *= 2
BackoffUnchanged(backoff) == backoff

NextBackoff(backoff) == 2 * backoff

\* The condition of the retry loop.
LoopConditionOffByOne(attempt, elapsed) ==
    attempt <= maxRetries /\ elapsed < maxTotalWait

LoopCondition(attempt, elapsed) ==
    attempt < maxRetries /\ elapsed < maxTotalWait

\* select { case <-ctx.Done(): ...; case <-time.After(wait): }
\* The goroutine parks on both channels and the timer is not due when it
\* does, so a closed ctx.Done() decides the select.
SelectWaitSleeps(isCancelled) == "timer"

SelectWait(isCancelled) ==
    IF isCancelled THEN "done" ELSE "timer"

IdleFetch ==
    [lastID |-> 0, attempt |-> 0, backoff |-> 0, elapsed |-> 0, wait |-> 0,
     requests |-> 0, status |-> 0, retryAfter |-> NoHeader, waitKind |-> "none",
     backoffWaits |-> 0]

\* The locals of fetchDelegationBatch on entry.  With them: the status and
\* the Retry-After header of the last response, whether the wait that
\* follows it is the hint or the backoff, and the number of backoff waits
\* of the call so far.
FetchEntry(lastID) ==
    [lastID |-> lastID, attempt |-> 0, backoff |-> initialBackoff, elapsed |-> 0,
     wait |-> 0, requests |-> 0, status |-> 0, retryAfter |-> NoHeader,
     waitKind |-> "none", backoffWaits |-> 0]

NoFetchRet == [delegations |-> <<>>, err |-> "nil", at |-> "none"]

\* fetchDelegationBatch returns (delegations, err) from place at.
FetchReturns(delegations, e, at) ==
    /\ pc' = "fetch_ret"
    /\ fetchRet' = [delegations |-> delegations, err |-> e, at |-> at]

\* Top of the retry loop: the loop condition, then client.Do, which sends
\* nothing when ctx is cancelled already.
RetryLoop ==
    /\ pc = "retry_loop"
    /\ IF LoopCondition(fetch.attempt, fetch.elapsed)
       THEN IF cancelled
            THEN FetchReturns(<<>>, "context canceled", "do") /\ UNCHANGED fetch
            ELSE /\ pc' = "http"
                 /\ fetch' = [fetch EXCEPT !.requests = @ + 1]
                 /\ UNCHANGED fetchRet
       ELSE \* the loop ends without a 200: the last response's body is closed
            /\ FetchReturns(<<>>, "error decoding response body", "exhausted")
            /\ UNCHANGED fetch
    /\ UNCHANGED <<storeVars, envVars, phase, wg, syncRet, hist, main, query, txn>>

\* client.Do returns response r after d seconds, and the switch on the
\* status code.
HttpResponse(r, d) ==
    /\ pc = "http"
    /\ LET now == fetch.elapsed + d
           hint == parseRetryAfter(r.retryAfter, now)
           useHint == ~hint.err /\ hint.d > 0
           arrived == [fetch EXCEPT !.elapsed = now, !.status = r.status,
                                    !.retryAfter = r.retryAfter, !.waitKind = "none"]
       IN  CASE r.status = 0 ->
                 /\ FetchReturns(<<>>, "transport error", "do")
                 /\ fetch' = arrived
             [] r.status = 200 ->
                 /\ IF r.body = "page"
                    THEN FetchReturns(UpstreamPage(feed, fetch.lastID, pageSize), "nil", "decode")
                    ELSE FetchReturns(<<>>, "error decoding response body", "decode")
                 /\ fetch' = arrived
             [] r.status \in {429, 503} ->
                 /\ pc' = "wait_retry_after"
                 /\ fetch' = [arrived EXCEPT
                                 !.wait = IF useHint THEN hint.d ELSE fetch.backoff,
                                 !.backoff = IF useHint THEN @ ELSE NextBackoff(@),
                                 !.waitKind = IF useHint THEN "hint" ELSE "backoff",
                                 !.backoffWaits = IF useHint THEN @ ELSE @ + 1]
                 /\ UNCHANGED fetchRet
             [] r.status \notin {429, 503} /\ IsServerError(r.status) ->
                 /\ pc' = "wait_server_error"
                 /\ fetch' = [arrived EXCEPT !.wait = fetch.backoff,
                                             !.waitKind = "backoff",
                                             !.backoffWaits = @ + 1]
                 /\ UNCHANGED fetchRet
             [] OTHER ->
                 /\ FetchReturns(<<>>, "unexpected status code", "status")
                 /\ fetch' = arrived
    /\ UNCHANGED <<storeVars, envVars, phase, wg, syncRet, hist, main, query, txn>>

\* client.Do is interrupted by the cancellation of ctx.
HttpCancelled ==
    /\ pc = "http"
    /\ cancelled
    /\ FetchReturns(<<>>, "context canceled", "do")
    /\ UNCHANGED <<fetch, storeVars, envVars, phase, wg, syncRet, hist, main, query, txn>>

\* The wait after a 429 or 503.
WaitRetryAfter ==
    /\ pc = "wait_retry_after"
    /\ IF SelectWait(cancelled) = "done"
       THEN FetchReturns(<<>>, "context canceled", "wait") /\ UNCHANGED fetch
       ELSE /\ pc' = "retry_loop"
            /\ fetch' = [fetch EXCEPT !.elapsed = @ + fetch.wait, !.wait = 0,
                                      !.attempt = @ + 1]
            /\ UNCHANGED fetchRet
    /\ UNCHANGED <<storeVars, envVars, phase, wg, syncRet, hist, main, query, txn>>

\* The wait after a 5xx other than 503; the backoff doubles after it.
WaitServerError ==
    /\ pc = "wait_server_error"
    /\ IF SelectWait(cancelled) = "done"
       THEN FetchReturns(<<>>, "context canceled", "wait") /\ UNCHANGED fetch
       ELSE /\ pc' = "retry_loop"
            /\ fetch' = [fetch EXCEPT !.elapsed = @ + fetch.wait, !.wait = 0,
                                      !.backoff = NextBackoff(@), !.attempt = @ + 1]
            /\ UNCHANGED fetchRet
    /\ UNCHANGED <<storeVars, envVars, phase, wg, syncRet, hist, main, query, txn>>

\* context cancellation: cancelPoller() in main.  What else the caller does
\* in that step is said where the action is used.
Cancel ==
    /\ ~cancelled
    /\ cancelled' = TRUE
    /\ UNCHANGED <<storeVars, feed, pageSize, tick, engineVars, fetchVars>>

(***************************************************************************)
(* Sync Engine: PollerService.Start, syncAndPoll, syncDelegationsBatch.     *)
(***************************************************************************)
\* The last expression of syncDelegationsBatch: caught up on a short page.
CaughtUpOnFullPage(n, size) == n <= size

CaughtUpOnlyWhenEmpty(n, size) == n = 0

CaughtUpAlways(n, size) == TRUE

CaughtUp(n, size) == n < size

NoSyncRet == [caughtUp |-> FALSE, err |-> "nil"]

\* ctx.Err() != nil
CtxErr(isCancelled) == isCancelled

\* The first statement of syncDelegationsBatch: give up when ctx.Err() != nil.
EntryCheckOmitted(isCancelled) == FALSE

EntryCheck(isCancelled) == CtxErr(isCancelled)

\* syncAndPoll after a cycle's error: return when ctx.Err() != nil, otherwise
\* sleep and retry.
ExitOnAnyError(isCancelled) == TRUE

ExitOnNoError(isCancelled) == FALSE

ExitOnError(isCancelled) == CtxErr(isCancelled)

InitPoller ==
    /\ cancelled = FALSE
    /\ tick = FALSE
    /\ pc = "idle"
    /\ phase = "historical_sync"
    /\ wg = 0
    /\ fetch = IdleFetch
    /\ fetchRet = NoFetchRet
    /\ syncRet = NoSyncRet
    /\ hist = [nonEmpty |-> 0, disturbed |-> FALSE, caughtUpAt |-> -1, feedAt |-> 0]

\* Start: wg.Add(1); go syncAndPoll(ctx).  What else the caller does in that
\* step is said where the action is used.
StartWithoutAdd ==
    /\ pc = "idle"
    /\ wg' = wg
    /\ pc' = "sync_enter"
    /\ UNCHANGED <<storeVars, envVars, phase, syncRet, hist, fetchVars>>

Start ==
    /\ pc = "idle"
    /\ wg' = wg + 1
    /\ pc' = "sync_enter"
    /\ UNCHANGED <<storeVars, envVars, phase, syncRet, hist, fetchVars>>

\* syncDelegationsBatch returns (caughtUp, err) to syncAndPoll.
SyncReturns(c, e) ==
    /\ pc' = "sync_ret"
    /\ syncRet' = [caughtUp |-> c, err |-> e]

\* A cycle ended in an error before the first catch-up.
Disturbed(h) == IF h.caughtUpAt < 0 THEN [h EXCEPT !.disturbed = TRUE] ELSE h

\* syncDelegationsBatch up to the call of fetchDelegationBatch: the check of
\* ctx.Err(), then the cursor read.
SyncBegin ==
    /\ pc = "sync_enter"
    /\ IF EntryCheck(cancelled)
       THEN /\ SyncReturns(FALSE, "context cancelled")
            /\ hist' = Disturbed(hist)
            /\ UNCHANGED <<storeVars, fetch>>
       ELSE \E fails \in BOOLEAN :
            /\ CallGetLatestTzktID(fails)
            /\ IF fails
               THEN /\ SyncReturns(FALSE, "failed to get latest TzktID")
                    /\ hist' = Disturbed(hist)
                    /\ UNCHANGED fetch
               ELSE /\ pc' = "retry_loop"
                    /\ fetch' = FetchEntry(GetLatestTzktID(rows))
                    /\ UNCHANGED <<syncRet, hist>>
    /\ UNCHANGED <<envVars, phase, wg, fetchRet, main, query, txn>>

\* syncDelegationsBatch from the return of fetchDelegationBatch on.
SyncAfterFetchInsertsEmpty ==
    /\ pc = "fetch_ret"
    /\ fetch' = IdleFetch
    /\ fetchRet' = NoFetchRet
    /\ IF fetchRet.err # "nil"
       THEN /\ SyncReturns(FALSE, "failed to fetch delegations")
            /\ hist' = Disturbed(hist)
            /\ UNCHANGED storeVars
       ELSE /\ CallInsertDelegations(fetchRet.delegations, NoFault)
            /\ SyncReturns(CaughtUp(Len(fetchRet.delegations), pageSize), "nil")
            /\ UNCHANGED hist
    /\ UNCHANGED <<envVars, phase, wg, main, query, txn>>

SyncAfterFetchIgnoresError ==
    /\ pc = "fetch_ret"
    /\ fetch' = IdleFetch
    /\ fetchRet' = NoFetchRet
    /\ CallInsertDelegations(fetchRet.delegations, NoFault)
    /\ SyncReturns(CaughtUp(Len(fetchRet.delegations), pageSize), "nil")
    /\ hist' = IF Len(fetchRet.delegations) > 0 /\ hist.caughtUpAt < 0 /\ ~hist.disturbed
               THEN [hist EXCEPT !.nonEmpty = @ + 1] ELSE hist
    /\ UNCHANGED <<envVars, phase, wg, main, query, txn>>

SyncAfterFetch ==
    /\ pc = "fetch_ret"
    /\ fetch' = IdleFetch
    /\ fetchRet' = NoFetchRet
    /\ IF fetchRet.err # "nil"
       THEN /\ SyncReturns(FALSE, "failed to fetch delegations")
            /\ hist' = Disturbed(hist)
            /\ UNCHANGED storeVars
       ELSE IF Len(fetchRet.delegations) = 0
       THEN /\ SyncReturns(TRUE, "nil")
            /\ UNCHANGED <<storeVars, hist>>
       ELSE \E f \in Faults(fetchRet.delegations) :
            /\ CallInsertDelegations(fetchRet.delegations, f)
            /\ LET e == InsertDelegations(rows, fetchRet.delegations, f).err
                   counted == IF hist.caughtUpAt < 0 /\ ~hist.disturbed
                              THEN [hist EXCEPT !.nonEmpty = @ + 1] ELSE hist
               IN  IF e # "nil"
                   THEN /\ SyncReturns(FALSE, "failed to store delegations")
                        /\ hist' = Disturbed(counted)
                   ELSE /\ SyncReturns(CaughtUp(Len(fetchRet.delegations), pageSize), "nil")
                        /\ hist' = counted
    /\ UNCHANGED <<envVars, phase, wg, main, query, txn>>

\* The background goroutine leaves syncAndPoll: the deferred ticker.Stop()
\* and wg.Done().
Exits ==
    /\ pc' = "exited"
    /\ wg' = wg - 1
    /\ tick' = FALSE

\* syncAndPoll on the result of a cycle, in either loop.
SyncResult ==
    /\ pc = "sync_ret"
    /\ IF syncRet.err # "nil"
       THEN IF ExitOnError(cancelled)
            THEN Exits /\ UNCHANGED <<phase, hist>>
            ELSE /\ pc' = "sleep"
                 /\ UNCHANGED <<phase, wg, tick, hist>>
       ELSE IF syncRet.caughtUp
       THEN \* break: out of the historical loop (the ticker is made), or
            \* back to the select of the polling loop
            /\ pc' = "select"
            /\ phase' = "polling"
            /\ tick' = IF phase = "polling" THEN tick ELSE FALSE
            /\ hist' = IF hist.caughtUpAt < 0
                       THEN [hist EXCEPT !.caughtUpAt = hist.nonEmpty, !.feedAt = feed]
                       ELSE hist
            /\ UNCHANGED wg
       ELSE /\ pc' = "sync_enter"
            /\ UNCHANGED <<phase, wg, tick, hist>>
    /\ UNCHANGED <<storeVars, feed, pageSize, cancelled, syncRet, fetchVars, main, query, txn>>

\* time.Sleep(time.Second) after a failed cycle runs to its end.
SleepDone ==
    /\ pc = "sleep"
    /\ pc' = "sync_enter"
    /\ UNCHANGED <<storeVars, envVars, phase, wg, syncRet, hist, fetchVars, main, query, txn>>

\* The select of the polling loop takes the tick.
PollWithoutTick ==
    /\ pc = "select"
    /\ tick' = FALSE
    /\ pc' = "sync_enter"
    /\ UNCHANGED <<storeVars, feed, pageSize, cancelled, phase, wg, syncRet, hist, fetchVars, main, query, txn>>

PollTick ==
    /\ pc = "select"
    /\ tick
    /\ tick' = FALSE
    /\ pc' = "sync_enter"
    /\ UNCHANGED <<storeVars, feed, pageSize, cancelled, phase, wg, syncRet, hist, fetchVars, main, query, txn>>

\* The select of the polling loop takes ctx.Done().
PollDone ==
    /\ pc = "select"
    /\ cancelled
    /\ Exits
    /\ UNCHANGED <<storeVars, feed, pageSize, cancelled, phase, syncRet, hist, fetchVars, main, query, txn>>

\* The ticker fires; its channel holds one tick.
Tick ==
    /\ phase = "polling"
    /\ pc # "exited"
    /\ ~tick
    /\ tick' = TRUE
    /\ UNCHANGED <<storeVars, feed, pageSize, cancelled, engineVars, fetchVars, main, query, txn>>

\* A new delegation operation appears upstream.
FeedAppend ==
    /\ feed < MaxFeed
    /\ feed' = feed + 1
    /\ hist' = Disturbed(hist)
    /\ UNCHANGED <<storeVars, pageSize, cancelled, tick, pc, phase, wg, syncRet, fetchVars, main, query, txn>>

(***************************************************************************)
(* func main, from poller.Start(ctx) to app.Shutdown.                      *)
(***************************************************************************)
joinTimeout == 5

\* main has built the poller and stands before poller.Start(ctx); nobody
\* calls poller.Wait().
InitMain == main = [pc |-> "Start", waiter |-> "none", waited |-> 0]

\* poller.Start(ctx); main then sets the server up and blocks on <-quit.
MainStart ==
    /\ main.pc = "Start"
    /\ Start
    /\ main' = [main EXCEPT !.pc = "quit"]
    /\ UNCHANGED <<query, txn>>

\* SIGINT or SIGTERM arrives on quit.
MainQuit ==
    /\ main.pc = "quit"
    /\ main' = [main EXCEPT !.pc = "cancelPoller"]
    /\ UNCHANGED <<storeVars, envVars, engineVars, fetchVars, query, txn>>

\* cancelPoller()
MainCancelPoller ==
    /\ main.pc = "cancelPoller"
    /\ Cancel
    /\ main' = [main EXCEPT !.pc = "go"]
    /\ UNCHANGED <<query, txn>>

\* done := make(chan struct{}); go func() { poller.Wait(); close(done) }()
\* and main enters the select with time.After(5 * time.Second) armed.
MainGoWait ==
    /\ main.pc = "go"
    /\ main' = [main EXCEPT !.pc = "select", !.waiter = "Wait"]
    /\ UNCHANGED <<storeVars, envVars, engineVars, fetchVars, query, txn>>

\* PollerService.Wait: p.wg.Wait() returns to its caller when the counter is
\* zero.
Wait ==
    /\ main.waiter = "Wait"
    /\ wg = 0
    /\ main' = [main EXCEPT !.waiter = "close"]
    /\ UNCHANGED <<storeVars, envVars, engineVars, fetchVars, query, txn>>

\* close(done)
CloseDone ==
    /\ main.waiter = "close"
    /\ main' = [main EXCEPT !.waiter = "closed"]
    /\ UNCHANGED <<storeVars, envVars, engineVars, fetchVars, query, txn>>

\* A second passes while main is in the select.
MainClock ==
    /\ main.pc = "select"
    /\ main.waited < joinTimeout
    /\ main' = [main EXCEPT !.waited = @ + 1]
    /\ UNCHANGED <<storeVars, envVars, engineVars, fetchVars, query, txn>>

\* case <-done
MainSelectDone ==
    /\ main.pc = "select"
    /\ main.waiter = "closed"
    /\ main' = [main EXCEPT !.pc = "Shutdown"]
    /\ UNCHANGED <<storeVars, envVars, engineVars, fetchVars, query, txn>>

\* case <-time.After(5 * time.Second)
MainSelectNoTimeout ==
    /\ main.pc = "select"
    /\ FALSE
    /\ main' = [main EXCEPT !.pc = "Shutdown"]
    /\ UNCHANGED <<storeVars, envVars, engineVars, fetchVars, query, txn>>

MainSelectTimeout ==
    /\ main.pc = "select"
    /\ main.waited = joinTimeout
    /\ main' = [main EXCEPT !.pc = "Shutdown"]
    /\ UNCHANGED <<storeVars, envVars, engineVars, fetchVars, query, txn>>

(***************************************************************************)
(* Errors: package apperrors, fmt.Errorf with %w, errors.Is, errors.As.    *)
(* An error is the chain of its layers, outermost first; nil is the empty  *)
(* chain.                                                                  *)
(***************************************************************************)
NilError == <<>>

NewValidationError(field) == <<[type |-> "ValidationError", text |-> field]>>

NewDatabaseErrorWithCause(operation, cause) ==
    <<[type |-> "DatabaseError", text |-> operation]>> \o cause

\* var ErrNoDelegations = errors.New("no delegations found")
ErrNoDelegations == <<[type |-> "errorString", text |-> "no delegations found"]>>

\* An error of the database driver.
DriverError == <<[type |-> "driver", text |-> "bad connection"]>>

\* fmt.Errorf(text + ": %w", err)
ErrorfWithoutCause(text, err) == <<[type |-> "errorString", text |-> text]>>

Errorf(text, err) == <<[type |-> "wrapError", text |-> text]>> \o err

\* errors.As(err, &validationErr)
IsValidationError(err) == \E i \in 1..Len(err) : err[i].type = "ValidationError"

\* errors.As(err, &dbErr)
IsDatabaseError(err) == \E i \in 1..Len(err) : err[i].type = "DatabaseError"

\* errors.As(err, &apiErr)
IsExternalAPIError(err) == \E i \in 1..Len(err) : err[i].type = "ExternalAPIError"

\* The error value that fetchDelegationBatch returns, by the name the
\* client's model gives it.
FetchError(name) ==
    CASE name = "nil" -> NilError
      [] name = "transport error" ->
           <<[type |-> "url.Error", text |-> "Get"]>>
      [] name = "context canceled" ->
           <<[type |-> "errorString", text |-> "context canceled"]>>
      [] name = "unexpected status code" ->
           <<[type |-> "errorString", text |-> "unexpected status code"]>>
      [] OTHER ->
           Errorf("error decoding response body",
                  <<[type |-> "json.SyntaxError", text |-> "invalid character"]>>)

\* errors.Is(err, db.ErrNoDelegations)
IsNotErrNoDelegations(err) == FALSE

IsErrNoDelegations(err) == \E i \in 1..Len(err) : err[i] = ErrNoDelegations[1]

\* The error value of a result of ListDelegations.
StoreError(name) ==
    CASE name = "nil" -> NilError
      [] name = "ValidationError" -> NewValidationError("ListDelegations")
      [] name = "ErrNoDelegations" -> ErrNoDelegations
      [] OTHER -> NewDatabaseErrorWithCause("query delegations", DriverError)

(***************************************************************************)
(* Query Service: DelegationService.GetDelegations.                        *)
(***************************************************************************)

\* Go's int is modelled with IntBits bits, two's complement.
MaxInt == 2 ^ (IntBits - 1) - 1
MinInt == -(2 ^ (IntBits - 1))

\* The int that an arithmetic operation with the exact result x yields.
WrapInt(x) == ((x - MinInt) % (2 ^ IntBits)) + MinInt

ServiceMaxPageSize == 1000
ServiceMinYear == 2018
ServiceMaxYear == 2100

validatePaginationParamsNoCap(pageNo, pageSz) ==
    IF pageNo < 1 THEN NewValidationError("pageNo")
    ELSE IF pageSz < 1 THEN NewValidationError("pageSize")
    ELSE NilError

validatePaginationParams(pageNo, pageSz) ==
    IF pageNo < 1 THEN NewValidationError("pageNo")
    ELSE IF pageSz < 1 THEN NewValidationError("pageSize")
    ELSE IF pageSz > ServiceMaxPageSize THEN NewValidationError("pageSize")
    ELSE NilError

validateYearParamNoUpperBound(year) ==
    IF year # NoYear /\ year < ServiceMinYear
    THEN NewValidationError("year")
    ELSE NilError

validateYearParam(year) ==
    IF year # NoYear /\ (year < ServiceMinYear \/ year > ServiceMaxYear)
    THEN NewValidationError("year")
    ELSE NilError

\* A query parameter of a request: absent, the decimal text of an integer
\* of at most ten characters, text that is no integer, or more than ten
\* characters.
Absent == [kind |-> "absent", v |-> 0]
IntParam(v) == [kind |-> "int", v |-> v]
TextParam == [kind |-> "text", v |-> 0]
LongParam == [kind |-> "long", v |-> 0]

\* No request is being handled; no response has been written.
NoRequest == [page |-> Absent, pageSize |-> Absent, year |-> Absent]
NoResponse == [status |-> 0, message |-> "", data |-> <<>>]

\* No GetDelegations call is running.
IdleQuery ==
    [pc |-> "idle", pageNo |-> 0, pageSize |-> 0, year |-> NoYear,
     limit |-> 0, offset |-> 0, filter |-> NoYear, calls |-> 0,
     repoRecs |-> <<>>, repoErr |-> NilError,
     delegations |-> <<>>, isNil |-> TRUE, err |-> NilError,
     request |-> NoRequest, response |-> NoResponse]

InitQuery == query = IdleQuery

\* GetDelegations returns (delegations, err); a nil slice is told from an
\* empty one.
QueryReturns(q, delegations, isNil, err) ==
    [q EXCEPT !.pc = "returned", !.delegations = delegations, !.isNil = isNil,
              !.err = err]

\* GetDelegations up to the call of s.Repo.ListDelegations: the two
\* validations and the offset.
\* The call begun from call record q0: at the repository call, or returned.
GetDelegationsEntry(q0, pageNo, pageSz, year) ==
    LET q == [q0 EXCEPT !.pageNo = pageNo, !.pageSize = pageSz, !.year = year]
        e1 == validatePaginationParams(pageNo, pageSz)
        e2 == validateYearParam(year)
    IN  IF e1 # NilError
        THEN QueryReturns(q, <<>>, TRUE, Errorf("invalid pagination parameters", e1))
        ELSE IF e2 # NilError
        THEN QueryReturns(q, <<>>, TRUE, Errorf("invalid year parameter", e2))
        ELSE [q EXCEPT !.pc = "ListDelegations",
                       !.limit = pageSz,
                       !.offset = WrapInt((pageNo - 1) * pageSz),
                       !.filter = year]

GetDelegations(pageNo, pageSz, year) ==
    /\ query.pc = "idle"
    /\ query' = GetDelegationsEntry(IdleQuery, pageNo, pageSz, year)
    /\ UNCHANGED <<storeVars, envVars, engineVars, fetchVars, main, txn>>

\* What s.Repo.ListDelegations(ctx, limit, offset, year) may answer on the
\* table: a result of the query, or a DatabaseError when the database fails
\* the query.
RepoAnswersOnlyWhileIngesting(limit, offset, year) ==
    IF pc \in {"sleep", "exited"} \/ fetch.waitKind # "none" THEN {}
    ELSE {[recs |-> r.recs, err |-> StoreError(r.err)] :
             r \in ListDelegations(rows, limit, offset, year)}

RepoAnswers(limit, offset, year) ==
    LET answers == {[recs |-> r.recs, err |-> StoreError(r.err)] :
                       r \in ListDelegations(rows, limit, offset, year)}
    IN  answers
        \cup (IF \E a \in answers : IsValidationError(a.err) THEN {}
              ELSE {[recs |-> <<>>, err |-> StoreError("DatabaseError")]})

\* GetDelegations from the return of s.Repo.ListDelegations on.
GetDelegationsAfterList ==
    /\ query.pc = "ListDelegations"
    /\ \E a \in RepoAnswers(query.limit, query.offset, query.filter) :
          LET q == [query EXCEPT !.calls = @ + 1, !.repoRecs = a.recs,
                                 !.repoErr = a.err]
          IN  query' =
                IF a.err # NilError
                THEN IF IsErrNoDelegations(a.err)
                     THEN QueryReturns(q, <<>>, FALSE, NilError)
                     ELSE QueryReturns(q, <<>>, TRUE,
                                       Errorf("failed to retrieve delegations", a.err))
                ELSE QueryReturns(q, a.recs, FALSE, NilError)
    /\ UNCHANGED <<storeVars, envVars, engineVars, fetchVars, main, txn>>

\* The caller has the result; the next call may begin.
QueryDone ==
    /\ query.pc = "returned"
    /\ query' = IdleQuery
    /\ UNCHANGED <<storeVars, envVars, engineVars, fetchVars, main, txn>>

(***************************************************************************)
(* HTTP edge: DelegationHandler.GetDelegations, GET /xtz/delegations.      *)
(***************************************************************************)
defaultPageSize == 50
maxPageSize == 1000
maxParamLen == 10
HandlerMinYear == 2018

\* respondWithError(ctx, status, message)
respondWithError(status, message) ==
    [status |-> status, message |-> message, data |-> <<>>]

\* ctx.URLParamInt / strconv.Atoi on a parameter of at most ten characters.
URLParamInt(param) ==
    IF param.kind = "int" THEN [v |-> param.v, err |-> FALSE]
    ELSE [v |-> 0, err |-> TRUE]

\* The handler's validatePaginationParams: [ok, page, pageSize, response].
HandlerValidatePaginationParams(pageParam, pageSizeParam) ==
    LET rejected(message) ==
            [ok |-> FALSE, page |-> 0, pageSize |-> 0,
             response |-> respondWithError(400, message)]
        p == URLParamInt(pageParam)
        ps == URLParamInt(pageSizeParam)
        page == IF pageParam.kind = "absent" THEN 1 ELSE p.v
        pageSz == IF pageSizeParam.kind = "absent" THEN defaultPageSize ELSE ps.v
    IN  IF pageParam.kind = "long"
        THEN rejected("Invalid page parameter: too long")
        ELSE IF pageParam.kind # "absent" /\ (p.err \/ p.v < 1)
        THEN rejected("Invalid page parameter: must be a positive integer")
        ELSE IF pageSizeParam.kind = "long"
        THEN rejected("Invalid pageSize parameter: too long")
        ELSE IF pageSizeParam.kind # "absent" /\ (ps.err \/ ps.v < 1 \/ ps.v > maxPageSize)
        THEN rejected("Invalid pageSize parameter: must be between 1 and 1000")
        ELSE [ok |-> TRUE, page |-> page, pageSize |-> pageSz, response |-> NoResponse]

\* The handler's validateYearParam: [ok, year, response].
HandlerValidateYearParam(yearParam) ==
    LET rejected(message) ==
            [ok |-> FALSE, year |-> NoYear, response |-> respondWithError(400, message)]
        y == URLParamInt(yearParam)
    IN  IF yearParam.kind = "absent"
        THEN [ok |-> TRUE, year |-> NoYear, response |-> NoResponse]
        ELSE IF yearParam.kind = "long"
        THEN rejected("Invalid year parameter: too long")
        ELSE IF y.err \/ y.v < HandlerMinYear
        THEN rejected("Invalid year parameter: must be a valid year from 2018 onwards")
        ELSE [ok |-> TRUE, year |-> y.v, response |-> NoResponse]

\* The status and the message the handler answers a service error with.
ErrorResponseLeaksCause(err) ==
    IF IsValidationError(err) THEN respondWithError(400, "Invalid request parameters")
    ELSE respondWithError(500, err[Len(err)].text)

ErrorResponse(err) ==
    IF IsValidationError(err) THEN respondWithError(400, "Invalid request parameters")
    ELSE IF IsDatabaseError(err) THEN respondWithError(500, "Database error")
    ELSE respondWithError(500, "Internal server error")

\* The handler up to the call of h.Service.GetDelegations.
HandlerGetDelegations(req) ==
    /\ query.pc = "idle"
    /\ LET q0 == [IdleQuery EXCEPT !.request = req]
           p == HandlerValidatePaginationParams(req.page, req.pageSize)
           y == HandlerValidateYearParam(req.year)
       IN  query' =
             IF ~p.ok THEN [q0 EXCEPT !.pc = "responded", !.response = p.response]
             ELSE IF ~y.ok THEN [q0 EXCEPT !.pc = "responded", !.response = y.response]
             ELSE GetDelegationsEntry(q0, p.page, p.pageSize, y.year)
    /\ UNCHANGED <<storeVars, envVars, engineVars, fetchVars, main, txn>>

\* The handler from the return of h.Service.GetDelegations on.
HandlerResponds ==
    /\ query.pc = "returned"
    /\ query' = [query EXCEPT
                    !.pc = "responded",
                    !.response = IF query.err # NilError
                                 THEN ErrorResponse(query.err)
                                 ELSE [status |-> 200, message |-> "",
                                       data |-> query.delegations]]
    /\ UNCHANGED <<storeVars, envVars, engineVars, fetchVars, main, txn>>

\* The response is sent; the next request may come.
HandlerDone ==
    /\ query.pc = "responded"
    /\ query' = IdleQuery
    /\ UNCHANGED <<storeVars, envVars, engineVars, fetchVars, main, txn>>

(***************************************************************************)
(* The Store on its own: any caller, any batch, any database fault.        *)
(***************************************************************************)
StoreInsert ==
    /\ \E b \in Batches : \E f \in Faults(b) : CallInsertDelegations(b, f)
    /\ UNCHANGED <<envVars, engineVars, fetchVars, main, query, txn>>

StoreGetLatest ==
    /\ \E fails \in BOOLEAN : CallGetLatestTzktID(fails)
    /\ UNCHANGED <<envVars, engineVars, fetchVars, main, query, txn>>

\* The empty table, and a poller that NewPoller has built and nobody started.
InitTable ==
    /\ rows = {}
    /\ firstStored = {}
    /\ last = [op |-> "none", err |-> "nil", n |-> 0, skipped |-> 0, ret |-> 0,
               differs |-> FALSE]

InitStore ==
    /\ InitTable
    /\ feed = 0
    /\ pageSize = 1
    /\ InitPoller
    /\ InitMain
    /\ InitQuery
    /\ InitTxn

NextStore == StoreInsert \/ StoreGetLatest

SpecStore == InitStore /\ [][NextStore]_vars

(***************************************************************************)
(* The Upstream Client on its own: fetchDelegationBatch called again and   *)
(* again, against every response the upstream may give.                    *)
(***************************************************************************)
Latencies == {0, httpTimeout}

FetchResponses ==
    {Response(0, NoHeader, "none"),
     Response(200, NoHeader, "page"),
     Response(200, NoHeader, "malformed"),
     Response(404, NoHeader, "text"),
     Response(500, NoHeader, "text"),
     Response(502, Seconds(2), "text")}
    \cup {Response(st, h, "text") :
            st \in {429, 503},
            h \in {NoHeader, [kind |-> "invalid", v |-> 0], Seconds(-1), Seconds(0),
                   Seconds(2), Seconds(200), HttpDate(3), HttpDate(200)}}
    \cup {Response(429, Seconds(2 ^ DurationBits + 2), "text")}

FetchCall ==
    /\ pc \in {"idle", "fetch_ret"}
    /\ \E i \in 0..feed : fetch' = FetchEntry(FeedID(i))
    /\ fetchRet' = NoFetchRet
    /\ pc' = "retry_loop"
    /\ UNCHANGED <<storeVars, envVars, phase, wg, syncRet, hist, main, query, txn>>

InitFetch ==
    /\ InitTable
    /\ feed = MaxFeed
    /\ pageSize = MaxPageSize
    /\ InitPoller
    /\ InitMain
    /\ InitQuery
    /\ InitTxn

NextFetch ==
    \/ FetchCall
    \/ RetryLoop
    \/ \E r \in FetchResponses : \E d \in Latencies : HttpResponse(r, d)
    \/ HttpCancelled
    \/ WaitRetryAfter
    \/ WaitServerError
    \/ Cancel /\ UNCHANGED <<main, query, txn>>

SpecFetch == InitFetch /\ [][NextFetch]_vars

(***************************************************************************)
(* The service: the Sync Engine with its Upstream Client and the Store.    *)
(***************************************************************************)
EngineResponses ==
    {Response(0, NoHeader, "none"),
     Response(200, NoHeader, "page"),
     Response(200, NoHeader, "malformed"),
     Response(404, NoHeader, "text"),
     Response(500, NoHeader, "text"),
     Response(429, NoHeader, "text"),
     Response(503, Seconds(maxTotalWait), "text")}

Init ==
    /\ InitTable
    /\ feed \in 0..MaxFeed
    /\ pageSize \in 1..MaxPageSize
    /\ InitPoller
    /\ InitMain
    /\ InitQuery
    /\ InitTxn

Next ==
    \/ Start /\ UNCHANGED <<main, query, txn>>
    \/ SyncBegin
    \/ RetryLoop
    \/ \E r \in EngineResponses : HttpResponse(r, 0)
    \/ HttpCancelled
    \/ WaitRetryAfter
    \/ WaitServerError
    \/ SyncAfterFetch
    \/ SyncResult
    \/ SleepDone
    \/ PollTick
    \/ PollDone
    \/ Tick
    \/ Cancel /\ UNCHANGED <<main, query, txn>>
    \/ FeedAppend

Spec == Init /\ [][Next]_vars

(***************************************************************************)
(* The engine left to run: a static feed, no shutdown, every step of the   *)
(* goroutine taken in the end, and failed cycles that come to an end.      *)
(***************************************************************************)
NextCatchUp ==
    \/ Start /\ UNCHANGED <<main, query, txn>>
    \/ SyncBegin
    \/ RetryLoop
    \/ \E r \in EngineResponses : HttpResponse(r, 0)
    \/ WaitRetryAfter
    \/ WaitServerError
    \/ SyncAfterFetch
    \/ SyncResult
    \/ SleepDone
    \/ PollTick
    \/ Tick

\* A step that ends a cycle with an error.
FailedCycle ==
    /\ pc # "sync_ret"
    /\ pc' = "sync_ret"
    /\ syncRet'.err # "nil"

\* Store calls, HTTP requests, waits and sleeps return and the ticker
\* ticks; from some point on no cycle fails.
SpecCatchUp ==
    /\ Init
    /\ [][NextCatchUp]_vars
    /\ WF_vars(NextCatchUp)
    /\ <>[][~FailedCycle]_vars

(***************************************************************************)
(* The program: main with the poller it starts, cancels and joins.         *)
(***************************************************************************)
ProgramResponses ==
    {Response(200, NoHeader, "page"),
     Response(404, NoHeader, "text"),
     Response(500, NoHeader, "text"),
     Response(429, NoHeader, "text")}

InitProgram ==
    /\ InitTable
    /\ feed \in 0..MaxFeed
    /\ pageSize = MaxPageSize
    /\ InitPoller
    /\ InitMain
    /\ InitQuery
    /\ InitTxn

\* The steps of the background goroutine.
EngineNext ==
    \/ SyncBegin
    \/ RetryLoop
    \/ \E r \in ProgramResponses : HttpResponse(r, 0)
    \/ HttpCancelled
    \/ WaitRetryAfter
    \/ WaitServerError
    \/ SyncAfterFetch
    \/ SyncResult
    \/ SleepDone
    \/ PollTick
    \/ PollDone

\* The steps of main that do not wait for anything outside the program.
MainNext ==
    \/ MainStart
    \/ MainCancelPoller
    \/ MainGoWait
    \/ MainClock
    \/ MainSelectDone
    \/ MainSelectTimeout

\* The steps of the goroutine that joins the poller.
WaiterNext ==
    \/ Wait
    \/ CloseDone

NextProgram ==
    \/ MainNext
    \/ MainQuit
    \/ WaiterNext
    \/ EngineNext
    \/ Tick

\* main runs whenever it can; nothing is assumed of the other goroutines.
SpecProgram == InitProgram /\ [][NextProgram]_vars /\ WF_vars(MainNext)

\* Every goroutine runs whenever it can: Store calls, HTTP requests and
\* time.Sleep return.
SpecProgramFair ==
    /\ InitProgram
    /\ [][NextProgram]_vars
    /\ WF_vars(MainNext)
    /\ WF_vars(WaiterNext)
    /\ WF_vars(EngineNext)

(***************************************************************************)
(* The Query Service over a table that the inserts have filled.            *)
(***************************************************************************)
BlockLevels == {1, 2}

StoredRecords ==
    [TzktID: TzktIDs, Timestamp: Timestamps, Amount: Amounts,
     Delegator: Delegators, Level: BlockLevels]

\* The contents of the table: tzkt_id is UNIQUE.
StoredTables ==
    {T \in SUBSET StoredRecords : \A r, q \in T : r.TzktID = q.TzktID => r = q}

PageNos == {-1, 0, 1, 2, 3, MaxInt}
PageSizes == {0, 1, 2, ServiceMaxPageSize, ServiceMaxPageSize + 1}
QueryYears ==
    {NoYear, ServiceMinYear - 1, ServiceMinYear, ServiceMaxYear, ServiceMaxYear + 1}
    \cup {YearOf(t) : t \in Timestamps}

InitQueryService ==
    /\ rows \in StoredTables
    /\ firstStored = rows
    /\ last = [op |-> "none", err |-> "nil", n |-> 0, skipped |-> 0, ret |-> 0,
               differs |-> FALSE]
    /\ feed = 0
    /\ pageSize = 1
    /\ InitPoller
    /\ InitMain
    /\ InitQuery
    /\ InitTxn

NextQuery ==
    \/ \E pageNo \in PageNos : \E pageSz \in PageSizes : \E year \in QueryYears :
          GetDelegations(pageNo, pageSz, year)
    \/ GetDelegationsAfterList
    \/ QueryDone

SpecQuery == InitQueryService /\ [][NextQuery]_vars

(***************************************************************************)
(* Reads while the engine runs: the Query Service is called from the       *)
(* server's goroutines at any step of the poller's goroutine.              *)
(***************************************************************************)
ReadResponses ==
    {Response(200, NoHeader, "page"),
     Response(404, NoHeader, "text"),
     Response(500, NoHeader, "text"),
     Response(429, NoHeader, "text")}

InitReads ==
    /\ InitTable
    /\ feed \in 1..MaxFeed
    /\ pageSize = MaxPageSize
    /\ InitPoller
    /\ InitMain
    /\ InitQuery
    /\ InitTxn

ReadNext ==
    \/ \E pageNo \in 1..2 : GetDelegations(pageNo, MaxPageSize, NoYear)
    \/ GetDelegationsAfterList
    \/ QueryDone

NextReads ==
    \/ Start /\ UNCHANGED <<main, query, txn>>
    \/ SyncBegin
    \/ RetryLoop
    \/ \E r \in ReadResponses : HttpResponse(r, 0)
    \/ HttpCancelled
    \/ WaitRetryAfter
    \/ WaitServerError
    \/ SyncAfterFetch
    \/ SyncResult
    \/ SleepDone
    \/ PollTick
    \/ PollDone
    \/ Tick
    \/ Cancel /\ UNCHANGED <<main, query, txn>>
    \/ ReadNext

SpecReads == InitReads /\ [][NextReads]_vars

(***************************************************************************)
(* Reads while a batch is being inserted: any batch, also one delivered    *)
(* again or holding a nil record, inserted statement by statement, and     *)
(* reads at any point between the statements.                              *)
(***************************************************************************)
InitIsolation ==
    /\ InitTable
    /\ feed = MaxFeed
    /\ pageSize = MaxPageSize
    /\ InitPoller
    /\ InitMain
    /\ InitQuery
    /\ InitTxn

WriterNext ==
    /\ \/ \E delegations \in Batches : TxBegin(delegations)
       \/ \E fails \in BOOLEAN : TxExec(fails)
       \/ \E fails \in BOOLEAN : TxCommit(fails)
    /\ firstStored' = firstStored \cup {r \in rows' : \A f \in firstStored : f.TzktID # r.TzktID}
    /\ UNCHANGED <<last, envVars, engineVars, fetchVars, main, query>>

NextIsolation ==
    \/ WriterNext
    \/ ReadNext

SpecIsolation == InitIsolation /\ [][NextIsolation]_vars

(***************************************************************************)
(* The HTTP edge over the Query Service over the table.                    *)
(***************************************************************************)
PageParams == {Absent, IntParam(0), IntParam(1), IntParam(2), TextParam, LongParam}
PageSizeParams ==
    {Absent, IntParam(0), IntParam(1), IntParam(maxPageSize), IntParam(maxPageSize + 1),
     LongParam}
YearParams ==
    {Absent, TextParam, LongParam}
    \cup {IntParam(y) : y \in QueryYears \ {NoYear}}

Requests == [page: PageParams, pageSize: PageSizeParams, year: YearParams]

NextEdge ==
    \/ \E req \in Requests : HandlerGetDelegations(req)
    \/ GetDelegationsAfterList
    \/ HandlerResponds
    \/ HandlerDone

SpecEdge == InitQueryService /\ [][NextEdge]_vars

(***************************************************************************)
(* Claims about the Store.                                                 *)
(***************************************************************************)

\* What a caller can observe of table content rs: the rows, the cursor and
\* every page.
Limits == 1..MaxTzktID
Offsets == 0..MaxTzktID
Years == {NoYear} \cup {YearOf(t) : t \in Timestamps}

Observable(rs) ==
    [rows |-> rs,
     latest |-> GetLatestTzktID(rs),
     pages |-> [a \in Limits \X Offsets \X Years |-> ListDelegations(rs, a[1], a[2], a[3])]]

\* Two table contents are observed alike.  Equal contents are: every
\* observation is a function of the content (the first disjunct only spares
\* recomputing it).
SameObservable(rs1, rs2) ==
    rs1 = rs2 \/ Observable(rs1) = Observable(rs2)

\* C1: the Store holds at most one row per sourceID (tzkt_id), and that row
\* carries the fields of the first committed insert of that sourceID, whatever
\* was delivered for it later.
C1_OneRowPerSourceID ==
    /\ \A r, q \in rows : r.TzktID = q.TzktID => r = q
    /\ \A f, g \in firstStored : f.TzktID = g.TzktID => f = g
    /\ rows = firstStored

\* A committed insert re-delivered a stored sourceID with other field values.
C1_Witness ==
    /\ last.op = "InsertDelegations"
    /\ last.err = "nil"
    /\ last.differs
    /\ last.skipped > 0

\* C2: InsertDelegations is idempotent: whenever a batch is inserted without
\* error, inserting the same batch again succeeds too and leaves the same
\* observable Store state (rows, cursor, every page).
C2_InsertIdempotent ==
    \A b \in Batches :
        LET once == InsertDelegations(rows, b, NoFault)
            twice == InsertDelegations(once.rows, b, NoFault)
        IN  once.err = "nil" =>
                /\ twice.err = "nil"
                /\ SameObservable(twice.rows, once.rows)

\* A batch whose records were all stored already has just been inserted
\* without error.
C2_Witness ==
    /\ last.op = "InsertDelegations"
    /\ last.err = "nil"
    /\ last.n > 1
    /\ last.skipped = last.n

\* C3: the cursor returned by GetLatestTzktID never decreases, whether an
\* InsertDelegations call commits, fails midway or re-delivers older ids.
C3_CursorMonotonic ==
    [][GetLatestTzktID(rows') >= GetLatestTzktID(rows)]_vars

\* The cursor stands above 1 and the last call was a failed insert.
C3_Witness ==
    /\ last.op = "InsertDelegations"
    /\ last.err # "nil"
    /\ GetLatestTzktID(rows) > 1

(***************************************************************************)
(* Claims about the Sync Engine and the Upstream Client.                   *)
(***************************************************************************)
CeilDiv(n, p) == (n + p - 1) \div p

\* C4: from an empty Store, with a static feed of N records served in
\* ascending id order, page size P and no failed cycle, the cycle that first
\* reports caught-up ends a run of exactly ceil(N/P) cycles with a non-empty
\* batch.
C4_CatchUpCycles ==
    (hist.caughtUpAt >= 0 /\ ~hist.disturbed) =>
        hist.caughtUpAt = CeilDiv(hist.feedAt, pageSize)

\* An undisturbed catch-up that took two non-empty cycles, the second one short.
C4_Witness ==
    /\ hist.caughtUpAt = 2
    /\ ~hist.disturbed
    /\ hist.feedAt > pageSize
    /\ hist.feedAt < 2 * pageSize

\* C5: one fetchDelegationBatch call issues at most 5 HTTP requests, whatever
\* the upstream answers.
C5_AtMostFiveRequests ==
    fetch.requests <= maxRetries

\* A call that gave up after its fifth request.
C5_Witness ==
    /\ pc = "fetch_ret"
    /\ fetchRet.at = "exhausted"
    /\ fetch.requests = maxRetries

\* C6: one fetchDelegationBatch call never spends more than 2 minutes
\* (requests plus waits) before it returns.
C6_WallTimeBound ==
    pc = "fetch_ret" => fetch.elapsed <= maxTotalWait

\* C7: when ctx is cancelled while fetchDelegationBatch waits before a retry
\* (a Retry-After hint or a backoff), the call returns the cancellation error
\* without sitting out the wait and without another HTTP request.
C7_CancelDuringWait ==
    [][(pc \in {"wait_retry_after", "wait_server_error"} /\ cancelled) =>
          /\ pc' = "fetch_ret"
          /\ fetchRet'.err = "context canceled"
          /\ fetch'.elapsed = fetch.elapsed
          /\ fetch'.requests = fetch.requests]_vars

\* A call returned the cancellation error out of a wait it had begun.
C7_Witness ==
    /\ pc = "fetch_ret"
    /\ fetchRet.err = "context canceled"
    /\ fetchRet.at = "wait"
    /\ fetch.wait > 0

\* C8: when ctx is cancelled during the fixed delay that follows a failed
\* cycle, the delay is aborted and the engine is Stopped next.
C8_DelayAborted ==
    [][(pc = "sleep" /\ cancelled /\ pc' # pc) => pc' = "exited"]_vars

\* C9: once ctx is cancelled no sync cycle starts: a syncDelegationsBatch that
\* is entered returns the cancellation error with no Store call and no fetch,
\* and syncAndPoll then exits without another attempt.
C9_NoCycleAfterCancel ==
    [][/\ (pc = "sync_enter" /\ cancelled /\ pc' # pc) =>
            /\ pc' = "sync_ret"
            /\ syncRet'.err = "context cancelled"
            /\ ~syncRet'.caughtUp
            /\ UNCHANGED <<rows, last, fetch, fetchRet>>
       /\ (pc = "sync_ret" /\ cancelled /\ syncRet.err # "nil" /\ pc' # pc) =>
            pc' = "exited"]_vars

\* The engine stopped on a cycle that was refused at its entry.
C9_Witness ==
    /\ pc = "exited"
    /\ syncRet.err = "context cancelled"

\* C10: the engine starts in HistoricalSync; it exits only with ctx cancelled;
\* a cycle's error without cancellation leaves the phase alone and leads,
\* through the fixed delay, to another cycle.
C10_StoppedOnlyByCancel ==
    /\ pc = "idle" /\ phase = "historical_sync"
    /\ [][/\ pc' = "exited" => cancelled
          /\ (pc = "sync_ret" /\ syncRet.err # "nil" /\ ~cancelled /\ pc' # pc) =>
                (pc' = "sleep" /\ phase' = phase)
          /\ (pc = "sleep" /\ pc' # pc) =>
                (pc' = "sync_enter" /\ phase' = phase)]_vars

\* A failed cycle without cancellation, in the polling phase, led to the delay.
C10_Witness ==
    /\ pc = "sleep"
    /\ phase = "polling"
    /\ ~cancelled

(***************************************************************************)
(* Claims about Start, Wait and the shutdown in main.                      *)
(***************************************************************************)

\* C11: after Start, Wait returns only once the background goroutine has
\* exited: Wait has never returned while the goroutine is in a sync cycle, in
\* the retry delay or in the polling loop.
C11_WaitAfterExit ==
    main.waiter \in {"close", "closed"} => pc = "exited"

\* Wait was called while the goroutine ran and has returned.
C11_Witness ==
    /\ main.waiter = "closed"
    /\ pc = "exited"
    /\ wg = 0

\* C12: once ctx is cancelled, wherever the goroutine stands, it exits and
\* Wait returns, provided every goroutine keeps running and every Store call
\* and HTTP request returns.
C12_StopIsLive ==
    cancelled ~> (pc = "exited" /\ main.waiter \in {"close", "closed"})

\* The goroutine was cancelled in the catch-up loop of the polling phase, on a
\* failed fetch, and Wait has returned.
C12_Witness ==
    /\ pc = "exited"
    /\ phase = "polling"
    /\ syncRet.err = "failed to fetch delegations"
    /\ main.waiter = "closed"

\* C13: after the termination signal main first cancels ctx, then waits for
\* the join no longer than joinTimeout seconds, and then goes on to the
\* server's shutdown whether or not the goroutine has exited.
C13_ShutdownBounded ==
    /\ [](main.pc \in {"go", "select", "Shutdown"} => cancelled)
    /\ [](main.waiter # "none" => cancelled)
    /\ [](main.waited <= joinTimeout)
    /\ (main.pc = "cancelPoller") ~> (main.pc = "Shutdown")

\* main went on after the whole timeout with the goroutine still running.
C13_Witness ==
    /\ main.pc = "Shutdown"
    /\ main.waited = joinTimeout
    /\ pc # "exited"

(***************************************************************************)
(* Claims about the phases and the sync cycle.                             *)
(***************************************************************************)

\* The number of records the cycle that has just returned without error
\* fetched: its last Store call is the insert of the batch, or, for an empty
\* batch, the cursor read.
CycleBatch == IF last.op = "InsertDelegations" THEN last.n ELSE 0

\* C14: the phase changes only from HistoricalSync to SteadyPoll, and exactly
\* when a cycle has returned without error having fetched fewer records than
\* the page size; after a full page or a failed cycle the engine stays in
\* HistoricalSync.
C14_PhaseTransition ==
    [][/\ phase' # phase =>
            /\ phase = "historical_sync"
            /\ phase' = "polling"
            /\ pc = "sync_ret"
            /\ syncRet.err = "nil"
            /\ CycleBatch < pageSize
       /\ (/\ phase = "historical_sync"
           /\ pc = "sync_ret"
           /\ pc' # pc
           /\ syncRet.err = "nil"
           /\ CycleBatch < pageSize) => phase' = "polling"]_vars

\* The engine went to SteadyPoll on a short, non-empty batch that followed
\* full pages.
C14_Witness ==
    /\ phase = "polling"
    /\ pc = "select"
    /\ hist.caughtUpAt > 1
    /\ last.op = "InsertDelegations"
    /\ last.n > 0
    /\ last.n < pageSize

\* C15: in SteadyPoll the engine leaves the select for a cycle only by taking
\* a tick; a cycle that returns without error and not caught up is followed by
\* the next cycle at once; and the engine comes back to the select only from a
\* cycle that reported caught-up.
C15_TickDrivesCycles ==
    [][/\ (phase = "polling" /\ pc = "select" /\ pc' # pc) =>
            \/ pc' = "sync_enter" /\ tick /\ ~tick'
            \/ pc' = "exited" /\ cancelled
       /\ (pc' = "select" /\ pc # "select") =>
            /\ pc = "sync_ret"
            /\ syncRet.err = "nil"
            /\ syncRet.caughtUp
       /\ (/\ phase = "polling"
           /\ pc = "sync_ret"
           /\ pc' # pc
           /\ syncRet.err = "nil"
           /\ ~syncRet.caughtUp) => pc' = "sync_enter"]_vars

\* In SteadyPoll, a cycle that returned a full page is followed by another
\* without a new tick.
C15_Witness ==
    /\ phase = "polling"
    /\ pc = "sync_enter"
    /\ syncRet.err = "nil"
    /\ ~syncRet.caughtUp
    /\ ~tick

\* C16: a cycle whose fetch returns an empty batch reports caught-up with no
\* error; it makes no Store call after the cursor read and leaves the table
\* unchanged.
C16_EmptyBatchNoMutation ==
    [][(/\ pc = "fetch_ret"
        /\ pc' # pc
        /\ fetchRet.err = "nil"
        /\ Len(fetchRet.delegations) = 0) =>
            /\ pc' = "sync_ret"
            /\ syncRet' = [caughtUp |-> TRUE, err |-> "nil"]
            /\ UNCHANGED <<rows, firstStored, last>>]_vars

\* A cycle on a table that holds rows fetched nothing and reported caught-up.
C16_Witness ==
    /\ pc = "sync_ret"
    /\ syncRet.caughtUp
    /\ syncRet.err = "nil"
    /\ last.op = "GetLatestTzktID"
    /\ rows # {}

\* C17: a cycle that fetches a non-empty batch calls InsertDelegations once,
\* with the fetched records; when the insert succeeds the cycle reports
\* caught-up exactly if the batch is shorter than the page size.
C17_InsertAndReport ==
    [][(/\ pc = "fetch_ret"
        /\ pc' # pc
        /\ fetchRet.err = "nil"
        /\ Len(fetchRet.delegations) > 0) =>
            /\ last'.op = "InsertDelegations"
            /\ last'.n = Len(fetchRet.delegations)
            /\ last'.err = "nil" =>
                  /\ rows' = InsertDelegations(rows, fetchRet.delegations, NoFault).rows
                  /\ {fetchRet.delegations[i] : i \in 1..Len(fetchRet.delegations)} \subseteq rows'
                  /\ syncRet' = [caughtUp |-> Len(fetchRet.delegations) < pageSize,
                                 err |-> "nil"]]_vars

\* A cycle inserted a batch of exactly the page size and reported not
\* caught-up.
C17_Witness ==
    /\ pc = "sync_ret"
    /\ syncRet.err = "nil"
    /\ ~syncRet.caughtUp
    /\ last.op = "InsertDelegations"
    /\ last.err = "nil"
    /\ last.n = pageSize
    /\ pageSize > 1

(***************************************************************************)
(* Claims about InsertDelegations and GetLatestTzktID.                     *)
(***************************************************************************)
IDsOf(rs) == {r.TzktID : r \in rs}

\* C18: InsertDelegations is all-or-nothing.  When it returns an error, at
\* Begin, Prepare, any Exec, the nil check or Commit, the table is as before
\* the call, the records executed before the failure included.  When it
\* returns nil, the table keeps what it held, holds every tzkt_id of the batch,
\* and holds every record whose tzkt_id was not stored when its row was
\* executed (neither in the table nor earlier in the batch).
C18_AllOrNothing ==
    \A b \in Batches : \A f \in Faults(b) :
        LET r == InsertDelegations(rows, b, f)
        IN  IF r.err # "nil"
            THEN r.rows = rows
            ELSE /\ rows \subseteq r.rows
                 /\ \A i \in 1..Len(b) :
                       /\ b[i].TzktID \in IDsOf(r.rows)
                       /\ (/\ b[i].TzktID \notin IDsOf(rows)
                           /\ \A j \in 1..(i - 1) : b[j].TzktID # b[i].TzktID)
                             => b[i] \in r.rows

\* A call on a table that holds rows failed and left it as it was, for a
\* batch whose first row was executed before the fault at the second.
C18_Witness ==
    /\ last.op = "InsertDelegations"
    /\ last.err = "DatabaseError"
    /\ last.n > 1
    /\ rows # {}
    /\ \E b \in Batches :
          /\ Len(b) > 1
          /\ b[1].TzktID \notin IDsOf(rows)
          /\ ~IsNil(b[1])
          /\ InsertDelegations(rows, b, [at |-> "exec", idx |-> 2]).err = "DatabaseError"

\* C19: a batch that holds a nil element, at any index, makes InsertDelegations
\* return a ValidationError when the database does not fail, never nil whatever
\* the database does, and the table stays as it was, valid records before the
\* nil element included.
C19_NilElementRejected ==
    \A b \in Batches :
        (\E i \in 1..Len(b) : IsNil(b[i])) =>
            /\ InsertDelegations(rows, b, NoFault).err = "ValidationError"
            /\ \A f \in Faults(b) :
                  LET r == InsertDelegations(rows, b, f)
                  IN  /\ r.err \in {"ValidationError", "DatabaseError"}
                      /\ r.rows = rows

\* A call returned a ValidationError on a table that holds rows, and a batch
\* with a new valid record before a nil element is rejected there.
C19_Witness ==
    /\ last.op = "InsertDelegations"
    /\ last.err = "ValidationError"
    /\ last.n > 1
    /\ rows # {}
    /\ \E b \in Batches :
          /\ Len(b) > 1
          /\ ~IsNil(b[1])
          /\ b[1].TzktID \notin IDsOf(rows)
          /\ IsNil(b[2])
          /\ InsertDelegations(rows, b, NoFault).err = "ValidationError"

\* C20: a GetLatestTzktID call that the database answers returns 0 on the
\* empty table and otherwise the greatest tzkt_id of the stored rows.
C20_LatestIsMax ==
    (last.op = "GetLatestTzktID" /\ last.err = "nil") =>
        IF rows = {}
        THEN last.ret = 0
        ELSE /\ last.ret \in IDsOf(rows)
             /\ \A id \in IDsOf(rows) : id <= last.ret

\* The call returned the greater of two stored ids.
C20_Witness ==
    /\ last.op = "GetLatestTzktID"
    /\ last.err = "nil"
    /\ Cardinality(rows) > 1
    /\ last.ret = MaxTzktID


(***************************************************************************)
(* Claims about the Query Service.                                         *)
(***************************************************************************)

\* The call that stands in query has returned.
Returned == query.pc = "returned"

\* The arguments of the call in query that the claims call valid.
ValidPageSize == query.pageSize >= 1 /\ query.pageSize <= 1000
ValidYear == query.year = NoYear \/ (query.year >= 2018 /\ query.year <= 2100)

\* C21: GetDelegations clamps a page number below 1 to 1: with a valid
\* pageSize and year, a call with pageNo < 1 returns no error and a result
\* that the call for page 1 can return.
C21_ClampsPageNumber ==
    (Returned /\ query.pageNo < 1 /\ ValidPageSize /\ ValidYear)
        => /\ query.err = NilError
           /\ \E a \in RepoAnswers(query.pageSize, 0, query.year) :
                 query.delegations = a.recs

\* C22: GetDelegations returns an error and never calls the repository's
\* ListDelegations whenever pageNo < 1, pageSize < 1 or pageSize > 1000.
C22_InvalidPaginationRejected ==
    (query.pc # "idle" /\ (query.pageNo < 1 \/ query.pageSize < 1 \/ query.pageSize > 1000))
        => /\ Returned
           /\ query.err # NilError
           /\ query.calls = 0

C22_Witness ==
    /\ Returned
    /\ query.pageNo = 1 /\ query.pageSize = 1001 /\ query.year = NoYear
    /\ query.err # NilError
    /\ query.calls = 0

\* C23: with a year filter below 2018 or above 2100, GetDelegations returns a
\* validation error and never calls the repository; a call without a year
\* filter and with valid pagination always reaches the repository.
C23_InvalidYearRejected ==
    /\ (query.pc # "idle" /\ query.year # NoYear /\ (query.year < 2018 \/ query.year > 2100))
          => /\ Returned
             /\ IsValidationError(query.err)
             /\ query.calls = 0
    /\ (Returned /\ query.year = NoYear /\ query.pageNo >= 1 /\ ValidPageSize)
          => query.calls = 1

C23_Witness ==
    /\ Returned
    /\ query.pageNo = 1 /\ query.pageSize = 1 /\ query.year = 2101
    /\ IsValidationError(query.err)
    /\ query.calls = 0


\* C24: a request that passes validation calls the repository exactly once,
\* with limit = pageSize, offset = (pageNo - 1) * pageSize and the year filter
\* it was given, and returns the repository's records in the same order.
C24_RepositoryCall ==
    /\ query.pc = "ListDelegations"
          => /\ query.limit = query.pageSize
             /\ query.offset = (query.pageNo - 1) * query.pageSize
             /\ query.filter = query.year
    /\ (Returned /\ query.pageNo >= 1 /\ ValidPageSize /\ ValidYear)
          => /\ query.calls = 1
             /\ query.repoErr = NilError => query.delegations = query.repoRecs


\* C25: when the Store answers a valid request with ErrNoDelegations, because
\* the filter matches nothing or the page lies beyond the last row,
\* GetDelegations returns an empty sequence and no error.
C25_NoRowsIsEmptyPage ==
    (Returned /\ query.repoErr = ErrNoDelegations)
        => /\ query.err = NilError
           /\ query.delegations = <<>>
           /\ ~query.isNil

\* A page beyond the last row of a table that is not empty.
C25_Witness ==
    /\ Returned
    /\ rows # {}
    /\ query.year = NoYear /\ query.offset >= Cardinality(rows)
    /\ query.repoErr = ErrNoDelegations
    /\ query.err = NilError /\ query.delegations = <<>>

\* C26: when the Store returns any other error, GetDelegations returns a nil
\* result and an error of the same category: a Store ValidationError is still
\* recognised by IsValidationError and a Store DatabaseError by
\* IsDatabaseError.
C26_StoreErrorKeepsCategory ==
    (Returned /\ query.repoErr # NilError /\ query.repoErr # ErrNoDelegations)
        => /\ query.isNil /\ query.delegations = <<>>
           /\ query.err # NilError
           /\ IsValidationError(query.err) <=> IsValidationError(query.repoErr)
           /\ IsDatabaseError(query.err) <=> IsDatabaseError(query.repoErr)

C26_Witness ==
    /\ Returned
    /\ IsDatabaseError(query.repoErr) /\ ~IsValidationError(query.repoErr)
    /\ IsDatabaseError(query.err) /\ ~IsValidationError(query.err)
    /\ query.isNil


\* A page as C27 describes it: newest first, a higher level first among equal
\* timestamps, at most limit records, only records of the year asked for.
C27_PageInOrder(recs, limit, year) ==
    /\ \A i, j \in 1..Len(recs) :
          i < j => \/ recs[i].Timestamp > recs[j].Timestamp
                   \/ /\ recs[i].Timestamp = recs[j].Timestamp
                      /\ recs[i].Level >= recs[j].Level
    /\ Len(recs) <= limit
    /\ year # NoYear => \A i \in 1..Len(recs) : YearOf(recs[i].Timestamp) = year

\* C27: every sequence ListDelegations returns for a valid (limit, offset,
\* year) is ordered by timestamp descending, then level descending, has at
\* most limit records and, with a year filter, only records of that year.
C27_PaginationOrdering ==
    /\ \A limit \in Limits : \A offset \in Offsets : \A year \in Years :
          \A r \in ListDelegations(rows, limit, offset, year) :
             r.err = "nil" => C27_PageInOrder(r.recs, limit, year)
    /\ (Returned /\ query.calls = 1 /\ query.repoErr = NilError)
          => C27_PageInOrder(query.repoRecs, query.limit, query.filter)

\* A page of two records of one timestamp and different levels, asked for
\* with a year filter.
C27_Witness ==
    /\ Returned /\ query.calls = 1 /\ query.repoErr = NilError
    /\ query.filter # NoYear
    /\ Len(query.repoRecs) = 2
    /\ query.repoRecs[1].Timestamp = query.repoRecs[2].Timestamp
    /\ query.repoRecs[1].Level > query.repoRecs[2].Level


\* C28: for a fixed table, ListDelegations(limit, offset, year) returns the
\* same sequence on every call, and the pages at offsets 0, limit, 2*limit, ...
\* share no record, also when records share a timestamp.  The length of the
\* page at an offset depends on the number of matching records only, so pages
\* that share no record contain every matching record exactly once.
C28_DeterministicPagination ==
    \A limit \in Limits : \A year \in Years :
       /\ \A offset \in Offsets :
             Cardinality(ListDelegations(rows, limit, offset, year)) = 1
       /\ \A k1, k2 \in 0..MaxTzktID :
             k1 # k2 =>
               \A p1 \in ListDelegations(rows, limit, k1 * limit, year) :
               \A p2 \in ListDelegations(rows, limit, k2 * limit, year) :
                  {p1.recs[i] : i \in 1..Len(p1.recs)}
                     \cap {p2.recs[i] : i \in 1..Len(p2.recs)} = {}


(***************************************************************************)
(* Claims about the waits of the Upstream Client.                          *)
(***************************************************************************)

\* C29: on a 429 or 503 the client waits exactly the hint when the
\* Retry-After header is a positive number of seconds or a date in the
\* future, and otherwise (missing, not parsable, zero, negative, a past date)
\* the current backoff; after the wait the loop goes on with the same cursor
\* and the next request carries it.
C29_RetryAfterHonoured ==
    [][/\ (pc = "http" /\ pc' = "wait_retry_after")
            => LET h == fetch'.retryAfter
                   now == fetch'.elapsed
                   positive == \/ h.kind = "seconds" /\ h.v > 0
                               \/ h.kind = "date" /\ h.v > now
                   hint == IF h.kind = "seconds" THEN h.v ELSE h.v - now
               IN  fetch'.wait = IF positive THEN hint ELSE fetch.backoff
       /\ (pc = "wait_retry_after" /\ pc' = "retry_loop")
            => /\ fetch'.lastID = fetch.lastID
               /\ fetch'.elapsed = fetch.elapsed + fetch.wait
       /\ (pc = "retry_loop" /\ pc' = "http")
            => fetch'.lastID = fetch.lastID]_vars


\* C30: within one call the backoff starts at 1 second and doubles after each
\* backoff wait (a 429 or 503 without a usable hint, or any other 5xx), so the
\* k-th backoff wait lasts 2^(k-1) seconds; a hint wait leaves the backoff as
\* it is; a 5xx other than 503 waits the backoff whatever its Retry-After
\* header says.
C30_BackoffDoubles ==
    [][/\ (pc # "retry_loop" /\ pc' = "retry_loop")
            => fetch'.backoff = initialBackoff * 2 ^ fetch'.backoffWaits
       /\ (pc = "http" /\ pc' \in {"wait_retry_after", "wait_server_error"})
            => /\ fetch'.waitKind = "backoff"
                    => /\ fetch'.backoffWaits = fetch.backoffWaits + 1
                       /\ fetch'.wait = 2 ^ (fetch'.backoffWaits - 1)
               /\ fetch'.waitKind = "hint"
                    => /\ fetch'.backoffWaits = fetch.backoffWaits
                       /\ fetch'.backoff = fetch.backoff
               /\ fetch'.status \notin {429, 503}
                    => /\ fetch'.waitKind = "backoff"
                       /\ fetch'.wait = fetch.backoff]_vars

\* The third backoff wait of a call, after a 502 that carries Retry-After: 2.
C30_Witness ==
    /\ pc = "wait_server_error"
    /\ fetch.status = 502 /\ fetch.retryAfter = Seconds(2)
    /\ fetch.backoffWaits = 3
    /\ fetch.wait = 4


\* C31: the client retries only on 429, 503 and other 5xx responses.  A
\* transport failure, a 200 whose body does not decode and any other status
\* end the call with an error at that attempt: no wait, no further request.
C31_RetriesOnlyRetryable ==
    [][/\ (pc = "http" /\ pc' \in {"wait_retry_after", "wait_server_error"})
            => fetch'.status \in {429, 503} \cup 500..599
       /\ (pc = "http" /\ pc' # "http" /\ fetch'.status \notin {429, 503} \cup 500..599)
            => /\ pc' = "fetch_ret"
               /\ fetch'.requests = fetch.requests
               /\ fetch'.wait = 0
               /\ fetch'.status # 200 => fetchRet'.err # "nil"
               /\ fetchRet'.err = "nil" => fetchRet'.at = "decode"
       /\ (pc = "fetch_ret" /\ pc' # "fetch_ret")
            => fetch'.requests = 0]_vars

\* A call that ended on a 404 received at its second request.
C31_Witness ==
    /\ pc = "fetch_ret"
    /\ fetch.status = 404 /\ fetch.requests = 2
    /\ fetchRet.err = "unexpected status code"


\* C32: when the retry loop is exhausted (every allowed attempt received a
\* retryable status, or the time ran out) the call returns an error that
\* reports the last failure, which is a retryable status and not a failure to
\* decode a body, and no records; the sync cycle around it then fails with
\* the fetch error and inserts nothing.
C32_ExhaustedSurfacesLastFailure ==
    [][/\ (pc = "retry_loop" /\ pc' = "fetch_ret" /\ fetchRet'.at = "exhausted")
            => /\ fetch.status \in {429, 503} \cup 500..599
               /\ fetchRet'.delegations = <<>>
               /\ fetchRet'.err # "nil"
               /\ fetchRet'.err # "error decoding response body"
       /\ (pc = "fetch_ret" /\ fetchRet.at = "exhausted" /\ pc' # pc)
            => /\ pc' = "sync_ret"
               /\ syncRet'.err = "failed to fetch delegations"
               /\ ~syncRet'.caughtUp
               /\ rows' = rows]_vars


\* C33: a failure of the Upstream Client (bad status, decode failure, retries
\* exhausted) is returned as an error of the ExternalAPIError category, which
\* is neither a ValidationError nor a DatabaseError; a failure of the Store is
\* a DatabaseError or a ValidationError.
C33_ErrorCategories ==
    /\ (pc = "fetch_ret"
          /\ fetchRet.err \in {"unexpected status code", "error decoding response body"})
          => /\ IsExternalAPIError(FetchError(fetchRet.err))
             /\ ~IsValidationError(FetchError(fetchRet.err))
             /\ ~IsDatabaseError(FetchError(fetchRet.err))
    /\ last.err # "nil"
          => \/ IsDatabaseError(StoreError(last.err))
             \/ IsValidationError(StoreError(last.err))


(***************************************************************************)
(* Claims about the HTTP edge.                                             *)
(***************************************************************************)

\* Errors of neither category, as a service other than DelegationService
\* behind the port may return them.
OtherErrors ==
    {DriverError, ErrNoDelegations, Errorf("failed to retrieve delegations", DriverError)}

\* The answer to service error err as C34 describes it.
C34_Sanitized(err, response) ==
    /\ IsValidationError(err) => response.status = 400
    /\ (~IsValidationError(err) /\ IsDatabaseError(err))
          => response.status = 500 /\ response.message = "Database error"
    /\ (~IsValidationError(err) /\ ~IsDatabaseError(err))
          => response.status = 500 /\ response.message = "Internal server error"
    /\ response.status = 500
          => \A i \in 1..Len(err) : response.message # err[i].text

C40_EdgeAndServiceAgree ==
    (query.pc = "returned" /\ query.request \in Requests)
        => ~(query.calls = 0 /\ IsValidationError(query.err))


(***************************************************************************)
(* Claims about failed cycles, reads during ingestion and completeness.    *)
(***************************************************************************)

\* C37: a sync cycle that fails leaves the table as it was and takes no
\* later step: when the cancellation check or the read of the cursor fails
\* no request is sent and nothing is inserted, when the fetch fails nothing
\* is inserted; the cycle returns an error and not caught-up, so the cursor
\* the next cycle reads is the same.
C37_FailedCycleChangesNothing ==
    [][/\ (pc = "sync_enter" /\ pc' = "sync_ret")
            => /\ syncRet'.err # "nil" /\ ~syncRet'.caughtUp
               /\ rows' = rows
               /\ fetch' = fetch /\ fetch.requests = 0
       /\ (pc = "fetch_ret" /\ fetchRet.err # "nil" /\ pc' # pc)
            => /\ pc' = "sync_ret"
               /\ syncRet'.err # "nil" /\ ~syncRet'.caughtUp
               /\ rows' = rows
               /\ last' = last
       /\ (pc' = "sync_ret" /\ pc # pc' /\ syncRet'.err # "nil")
            => /\ ~syncRet'.caughtUp
               /\ rows' = rows
               /\ GetLatestTzktID(rows') = GetLatestTzktID(rows)]_vars

\* A cycle failed in the fetch after earlier cycles had stored records.
C37_Witness ==
    /\ pc = "sync_ret"
    /\ syncRet.err = "failed to fetch delegations"
    /\ rows # {}
    /\ last.op = "GetLatestTzktID" /\ last.err = "nil"


\* C38: no loss at any point, shutdown included: with an upstream that
\* returns the records beyond the cursor in ascending order, in every
\* reachable state the table holds exactly the feed records whose id is at
\* most GetLatestTzktID: a prefix of the feed without gaps or duplicates.
C38_NoLoss ==
    /\ rows = {FeedRecord(i) : i \in {k \in 1..feed : FeedID(k) <= GetLatestTzktID(rows)}}
    /\ \A r, q \in rows : r.TzktID = q.TzktID => r = q

\* The poller has exited on cancellation, after a failed cycle, with a part
\* of the feed stored.
C38_Witness ==
    /\ pc = "exited" /\ cancelled
    /\ hist.disturbed
    /\ rows # {} /\ Cardinality(rows) < feed


\* A cycle has just reported caught-up.
CaughtUpCycle == pc = "sync_ret" /\ syncRet.err = "nil" /\ syncRet.caughtUp

\* C39: with a static feed served in ascending id order, whenever a cycle
\* reports caught-up the table holds every record of the feed; and when every
\* step is taken in the end and only finitely many cycles fail, a cycle
\* reports caught-up in the end.
C39_CompleteOnCatchUp ==
    /\ [](CaughtUpCycle => rows = {FeedRecord(i) : i \in 1..feed})
    /\ <>CaughtUpCycle

\* Caught up on a feed of more than one page after a failed cycle.
C39_Witness ==
    /\ CaughtUpCycle
    /\ hist.disturbed
    /\ feed > pageSize
    /\ Cardinality(rows) = feed


\* C35: upstream failures never block or fail reads.  Wherever the engine
\* stands (in a request, in a wait of the client, in the delay after a failed
\* cycle, stopped), a GetDelegations call can begin and can take its next
\* step; what the repository answers is a result of the query on the
\* committed table or a failure of the database; and an error the call
\* returns is a failure of the Store, never one of the upstream.
C35_ReadsNeverBlocked ==
    /\ [](/\ query.pc = "idle" => ENABLED GetDelegations(1, MaxPageSize, NoYear)
          /\ query.pc = "ListDelegations" => ENABLED GetDelegationsAfterList
          /\ (Returned /\ query.err # NilError)
                => /\ IsDatabaseError(query.repoErr)
                   /\ ~IsExternalAPIError(query.err)
                   /\ \A name \in {"transport error", "unexpected status code",
                                    "error decoding response body", "context canceled"} :
                         \A i \in 1..Len(query.err) :
                            \A j \in 1..Len(FetchError(name)) :
                               query.err[i] # FetchError(name)[j])
    /\ [][(query.pc = "ListDelegations" /\ query'.pc = "returned")
            => \/ query'.repoErr = StoreError("DatabaseError")
               \/ \E r \in ListDelegations(rows, query.limit, query.offset, query.filter) :
                     /\ query'.repoRecs = r.recs
                     /\ query'.repoErr = StoreError(r.err)]_vars

\* A read returned records during the delay that follows a failed fetch.
C35_Witness ==
    /\ Returned
    /\ query.err = NilError /\ query.delegations # <<>>
    /\ pc = "sleep"
    /\ syncRet.err = "failed to fetch delegations"

(***************************************************************************)
(* C36: a read that runs while a batch is being inserted never sees a part *)
(* of the batch.  While the transaction of InsertDelegations is open the   *)
(* table that reads query is the one from before the batch; every answer   *)
(* of ListDelegations is a page of a table holding all of the batch or     *)
(* none of it; and the transaction ends with all of the batch stored or    *)
(* none of it.                                                             *)
(***************************************************************************)
AllOrNone ==
    IF txn.state = "open"
    THEN {txn.before, InsertDelegations(txn.before, txn.batch, NoFault).rows}
    ELSE {rows}

C36_NoPartialBatchRead ==
    /\ [](txn.state = "open" => rows = txn.before)
    /\ [][(query.pc = "ListDelegations" /\ query'.pc = "returned")
            => \/ query'.repoErr = StoreError("DatabaseError")
               \/ \E rs \in AllOrNone :
                     \E r \in ListDelegations(rs, query.limit, query.offset, query.filter) :
                        /\ query'.repoRecs = r.recs
                        /\ query'.repoErr = StoreError(r.err)]_vars
    /\ [][(txn.state = "open" /\ txn'.state = "none") => rows' \in AllOrNone]_vars

\* A read returned a page while the first record of a batch of two was
\* written and not committed; the page holds nothing of the batch.
C36_Witness ==
    /\ Returned
    /\ query.err = NilError
    /\ txn.state = "open"
    /\ Len(txn.batch) = 2
    /\ txn.done = 1
    /\ txn.pending # {}
    /\ txn.before # {}
    /\ \A i \in 1..Len(query.delegations) : query.delegations[i] \notin txn.pending

====
